---------------------------- MODULE Spec2Model ----------------------------
(***************************************************************************)
(* A model of the messenger-RNA strand engine of gene-expression-basics:   *)
(* the shape-segment list of a strand (FlatSegment.add / remove / advance  *)
(* / advanceAndRemove / maxOutLength), its chain of shape-defining points  *)
(* (reduceLength) and the attachment protocol of MessengerRna (proposals   *)
(* from ribosomes and destroyers, initiate, advance, release, abort).      *)
(*                                                                         *)
(* Lengths are integers: one unit is the smallest length the model moves.  *)
(* A flat segment's contained length is the width of its bounds; the model *)
(* carries that width as the field len and moves it as the setMinMax calls *)
(* of the source move it.  Segments are objects: they live in the heap seg *)
(* and the strand's list shapeSegments holds their ids, so that a segment  *)
(* the list has dropped can still be referenced by the ribosome map.       *)
(*                                                                         *)
(* MessengerRna.js holds the JavaScript port (lines 1-480) and, commented  *)
(* out, the implementation it is ported from (lines 481-923).  The port of *)
(* initiateTranslation / initiateDestruction reads this.ribosome and       *)
(* MessengerRna.jsLEADER_LENGTH (lines 327, 343) and its constructor has   *)
(* the creation of the leader segment commented out (lines 66-70); for     *)
(* those three places the model follows the reference text kept in the     *)
(* same file (lines 560-564, 794-820).                                     *)
(***************************************************************************)
EXTENDS Integers, Sequences, FiniteSets, TLC

----------------------------------------------------------------------------
(* Bounds of the model *)

\* longest strand the polymerase transcribes
MaxLen == 7
\* largest length passed to one advanceTranslation / advanceDestruction call
MaxStep == 3
\* largest length the polymerase adds in one addLength call
MaxAdd == 2
\* number of segment objects alive at once
MaxSegs == 7

----------------------------------------------------------------------------
(* Program constants, in model units *)

\* WindingBiomolecule.INTER_POINT_DISTANCE
INTER_POINT_DISTANCE == 1
\* MessengerRna.LEADER_LENGTH
LEADER_LENGTH == INTER_POINT_DISTANCE * 2
RIBOSOME_CONNECTION_DISTANCE == 400
MRNA_DESTROYER_CONNECT_DISTANCE == 400
\* Ribosome.getTranslationChannelLength()
TranslationChannelLength == 2
\* MessengerRnaDestroyer.getDestructionChannelLength()
DestructionChannelLength == 1
\* ShapeSegment's default capacity (no limit)
UNLIMITED == 1000

Ribosomes == {"r1", "r2"}
Destroyers == {"d1", "d2"}
SegIds == 1..MaxSegs
\* null, for a segment reference
NoSeg == 0
\* null, for a molecule reference
NoMolecule == "null"

\* ShapeSegment.FLOATING_POINT_COMP_FACTOR lies strictly between 0 and one
\* unit, so on the integer grid "x < factor" is x <= 0 and "x > factor" is x >= 1.
BelowCompFactor(x) == x < 1
AboveCompFactor(x) == x > 0

Min(a, b) == IF a < b THEN a ELSE b

RECURSIVE SumSeq(_)
SumSeq(s) == IF s = <<>> THEN 0 ELSE Head(s) + SumSeq(Tail(s))

----------------------------------------------------------------------------
(* The segment list (an array of object references) *)

\* Array.indexOf, 1-based; 0 stands for JavaScript's -1
IndexOf(list, s) ==
  IF \E i \in 1..Len(list) : list[i] = s
    THEN CHOOSE i \in 1..Len(list) : list[i] = s
    ELSE 0

RemoveAt(list, i) == SubSeq(list, 1, i - 1) \o SubSeq(list, i + 1, Len(list))

InsertAt(list, i, s) == SubSeq(list, 1, i - 1) \o <<s>> \o SubSeq(list, i, Len(list))

\* index = list.indexOf( this ); list.splice( index, 1 ).  splice( -1, 1 )
\* deletes the last element of the array.
SpliceOut(list, s) ==
  IF IndexOf(list, s) # 0 THEN RemoveAt(list, IndexOf(list, s))
  ELSE IF list = <<>> THEN list
  ELSE SubSeq(list, 1, Len(list) - 1)

\* WindingBiomolecule.getPreviousShapeSegment
getPreviousShapeSegment(w, s) ==
  IF IndexOf(w.list, s) >= 2 THEN w.list[IndexOf(w.list, s) - 1] ELSE NoSeg

\* WindingBiomolecule.getNextShapeSegment
getNextShapeSegment(w, s) ==
  IF IndexOf(w.list, s) = Len(w.list) THEN NoSeg ELSE w.list[IndexOf(w.list, s) + 1]

\* WindingBiomolecule.insertAfterShapeSegment
insertAfterShapeSegment(w, s, new) ==
  [w EXCEPT !.list = InsertAt(@, IndexOf(@, s) + 1, new)]

\* WindingBiomolecule.insertBeforeShapeSegment
insertBeforeShapeSegment(w, s, new) ==
  [w EXCEPT !.list = IF IndexOf(@, s) # 0 THEN InsertAt(@, IndexOf(@, s), new)
                     ELSE IF @ = <<>> THEN <<new>>
                     ELSE InsertAt(@, Len(@), new)]

----------------------------------------------------------------------------
(* Segment objects.  A world w is the part of the strand the segment       *)
(* methods work on: the heap w.seg, the list w.list, w.err the exception   *)
(* that ended the call ("none" if it returned) and w.assertion, set when   *)
(* an assert of the source found its condition false.                      *)

FreeSlot == [kind |-> "free", cap |-> 0, len |-> 0, site |-> NoMolecule]

\* the object a constructor call returns: the lowest unused slot of the heap
NewSeg(w) ==
  CHOOSE i \in SegIds :
    /\ w.seg[i].kind = "free"
    /\ \A j \in SegIds : j < i => w.seg[j].kind # "free"

\* a square segment where a flat one is constructed
NewFlatSegmentThatIsSquare(w, n) ==
  [w EXCEPT !.seg[n] = [kind |-> "square", cap |-> UNLIMITED, len |-> 0, site |-> NoMolecule]]

\* new FlatSegment( origin ): bounds of zero width
NewFlatSegment(w, n) ==
  [w EXCEPT !.seg[n] = [kind |-> "flat", cap |-> UNLIMITED, len |-> 0, site |-> NoMolecule]]

\* new SquareSegment( origin )
NewSquareSegment(w, n) ==
  [w EXCEPT !.seg[n] = [kind |-> "square", cap |-> UNLIMITED, len |-> 0, site |-> NoMolecule]]

\* ShapeSegment.setCapacity
setCapacity(w, s, c) == [w EXCEPT !.seg[s].cap = c]

\* ShapeSegment.getRemainingCapacity
getRemainingCapacity(w, s) == w.seg[s].cap - w.seg[s].len

\* calling a method on null
Throw(w) == [w EXCEPT !.err = "TypeError"]

\* SquareSegment.add
SquareAdd(w, s, length) == [w EXCEPT !.seg[s].len = @ + length]

\* SquareSegment.remove
SquareRemove(w, s, length) ==
  LET w1 == [w EXCEPT !.seg[s].len = @ - length]
  IN  IF BelowCompFactor(w1.seg[s].len)
        THEN [w1 EXCEPT !.list = SpliceOut(@, s)]
        ELSE w1

\* remove without the deletion from the list
FlatRemoveKeeping(w, s, length) == [w EXCEPT !.seg[s].len = @ - length]

\* FlatSegment.remove
FlatRemove(w, s, length) ==
  LET w1 == [w EXCEPT !.seg[s].len = @ - length]
  IN  IF BelowCompFactor(w1.seg[s].len)
        THEN [w1 EXCEPT !.list = SpliceOut(@, s)]
        ELSE w1

\* add without the clamp at the remaining capacity
FlatAddUnclamped(w, s, length) ==
  LET over == w.seg[s].len + length > w.seg[s].cap
      n == NewSeg(w)
      w1 == IF over
              THEN insertAfterShapeSegment(
                     SquareAdd(NewSquareSegment(w, n), n,
                               length - (w.seg[s].cap - w.seg[s].len)), s, n)
              ELSE w
  IN  [w1 EXCEPT !.seg[s].len = @ + length]

\* FlatSegment.add
FlatAdd(w, s, length) ==
  LET failed == ~(w.seg[s].len <= w.seg[s].cap)
      over == w.seg[s].len + length > w.seg[s].cap
      growthAmount == IF over THEN w.seg[s].cap - w.seg[s].len ELSE length
      n == NewSeg(w)
      w1 == IF over
              THEN insertAfterShapeSegment(
                     SquareAdd(NewSquareSegment(w, n), n, length - growthAmount), s, n)
              ELSE w
  IN  [w1 EXCEPT !.seg[s].len = @ + growthAmount,
                 !.assertion = @ \/ failed]

\* FlatSegment.maxOutLength: the left edge moves out by the remaining
\* capacity and the right edge is set to left edge + capacity
maxOutLength(w, s) ==
  LET growthAmount == getRemainingCapacity(w, s)
      minX == 0 - growthAmount
      maxX == 0 - growthAmount + w.seg[s].cap
  IN  [w EXCEPT !.seg[s].len = maxX - minX]

\* segment.add, dispatched on the segment's class
SegAdd(w, s, length) ==
  IF w.seg[s].kind = "flat" THEN FlatAdd(w, s, length) ELSE SquareAdd(w, s, length)

\* segment.remove, dispatched on the segment's class
SegRemove(w, s, length) ==
  IF w.seg[s].kind = "flat" THEN FlatRemove(w, s, length) ELSE SquareRemove(w, s, length)

\* FlatSegment.advance
FlatAdvance(w, s, length) ==
  LET outputSegment == getPreviousShapeSegment(w, s)
      inputSegment == getNextShapeSegment(w, s)
  IN
  IF inputSegment = NoSeg THEN
    \* the end of the strand is in this segment: it shrinks
    LET lengthToAdvance == Min(length, w.seg[s].len)
        w1 == FlatRemove(w, s, lengthToAdvance)
    IN  IF outputSegment = NoSeg THEN Throw(w1)
        ELSE SegAdd(w1, outputSegment, lengthToAdvance)
  ELSE IF w.seg[inputSegment].len > length THEN
    IF w.seg[s].len + length <= w.seg[s].cap THEN
      \* this segment just grows
      SegRemove(FlatAdd(w, s, length), inputSegment, length)
    ELSE
      LET remainingCapacity == getRemainingCapacity(w, s)
          notFull == AboveCompFactor(remainingCapacity)
          n == NewSeg(w)
          w1 == IF notFull
                  THEN insertBeforeShapeSegment(
                         setCapacity(
                           NewFlatSegment(
                             [maxOutLength(w, s) EXCEPT
                                !.assertion = @ \/ outputSegment # NoSeg], n),
                           n, LEADER_LENGTH),
                         s, n)
                  ELSE w
          out == IF notFull THEN n ELSE outputSegment
      IN  IF out = NoSeg THEN Throw(w1)
          ELSE SegRemove(SegAdd(w1, out, length - remainingCapacity), inputSegment, length)
  ELSE
    \* the input segment is drained, this segment gives the rest
    LET w1 == FlatRemove(w, s, length - w.seg[inputSegment].len)
        w2 == SegRemove(w1, inputSegment, w1.seg[inputSegment].len)
    IN  IF outputSegment = NoSeg THEN Throw(w2)
        ELSE SegAdd(w2, outputSegment, length)

\* FlatSegment.advanceAndRemove
FlatAdvanceAndRemove(w, s, length) ==
  LET inputSegment == getNextShapeSegment(w, s)
  IN
  IF inputSegment = NoSeg THEN
    FlatRemove(w, s, Min(length, w.seg[s].len))
  ELSE IF w.seg[inputSegment].len > length THEN
    SegRemove(w, inputSegment, length)
  ELSE
    LET w1 == FlatRemove(w, s, length - w.seg[inputSegment].len)
    IN  SegRemove(w1, inputSegment, w1.seg[inputSegment].len)

----------------------------------------------------------------------------
(* The strand *)

VARIABLES
  seg,                            \* the segment objects
  shapeSegments,                  \* WindingBiomolecule.shapeSegments, ids of seg
  points,                         \* targetDistanceToPreviousPoint along the chain;
                                  \* points[1] is firstShapeDefiningPoint and
                                  \* points[Len(points)] is lastShapeDefiningPoint
  mapRibosomeToShapeSegment,      \* ribosome -> segment, NoSeg for no entry
  messengerRnaDestroyer,          \* the destroyer, or NoMolecule
  segmentWhereDestroyerConnects,  \* a segment, or NoSeg
  state,                          \* state of mRnaAttachmentStateMachine
  err,                            \* the exception that ended the last call, or "none"
  assertion,                      \* an assert of the source has seen its condition false
  ribosomeState,                  \* where each ribosome is in its own protocol
  call,                           \* the last call made on the strand
  ret                             \* what it returned

vars == <<seg, shapeSegments, points, mapRibosomeToShapeSegment, messengerRnaDestroyer,
          segmentWhereDestroyerConnects, state, err, assertion, ribosomeState, call, ret>>

\* Objects beside the strand: the motion bounds of the biomolecules and the
\* screen view's layer of biomolecule nodes.  The strand's methods touch none
\* of them.
VARIABLES
  bounds2,                        \* the Bounds2 objects: reference -> value
  motionBounds,                   \* MotionBounds instance -> the reference in this.bounds
  motionCall,                     \* the last call made on a MotionBounds
  mobileBiomoleculeList,          \* model.mobileBiomoleculeList
  topBiomoleculeLayer,            \* biomolecule -> its MobileBiomoleculeNodes among the children
  itemRemovedListeners,           \* biomolecule -> the registered removeItemListeners made for it
  addedBiomolecules,              \* the biomolecules added since the view was made, still listed
  screenView                      \* whether the ManualGeneExpressionScreenView has been made

motionVars == <<bounds2, motionBounds, motionCall>>

viewVars == <<mobileBiomoleculeList, topBiomoleculeLayer, itemRemovedListeners,
              addedBiomolecules, screenView>>

elsewhere == <<motionVars, viewVars>>

allVars == <<vars, elsewhere>>

\* Coordinates of the shapes tested against the bounds, along x
MaxCoord == 2

\* Number.POSITIVE_INFINITY: beyond every coordinate
Infinity == MaxCoord + 1

\* Bounds2 values along x: new Bounds2( minX, ..., maxX, ... )
Bounds2(minX, maxX) == [minX |-> minX, maxX |-> maxX]

\* The bounds a caller can pass: of a shape, or to constrain a motion
FiniteBounds ==
  {b \in [minX : 0..MaxCoord, maxX : 0..MaxCoord] : b.minX <= b.maxX}

\* Bounds2.EVERYTHING, as the library creates it
EVERYTHING == Bounds2(0 - Infinity, Infinity)

\* The MotionBounds instances of a screen
MotionBoundsInstances == {"m1", "m2"}

\* this.bounds of an instance whose constructor has not run
Unconstructed == "unconstructed"

\* References to Bounds2 objects: the library's one EVERYTHING object, and the
\* object passed to the constructor of each instance
Bounds2Refs == {"Bounds2.EVERYTHING"} \cup MotionBoundsInstances

NoMotionCall == [name |-> "none", who |-> "none", threw |-> FALSE]

MotionBoundsIdle ==
  /\ bounds2 = [r \in Bounds2Refs |-> EVERYTHING]
  /\ motionBounds = [m \in MotionBoundsInstances |-> Unconstructed]
  /\ motionCall = NoMotionCall

\* The biomolecules a model can hold
Biomolecules == {"b1", "b2", "b3", "b4"}

ViewIdle ==
  /\ mobileBiomoleculeList = {}
  /\ topBiomoleculeLayer = [b \in Biomolecules |-> 0]
  /\ itemRemovedListeners = [b \in Biomolecules |-> 0]
  /\ addedBiomolecules = {}
  /\ screenView = "none"

ElsewhereInit == MotionBoundsIdle /\ ViewIdle

World == [seg |-> seg, list |-> shapeSegments, err |-> "none", assertion |-> assertion]

\* WindingBiomolecule.getLength: the length along the chain of points
getLength(pts) == SumSeq(pts)

\* the sum of getContainedLength() over the segment list
ContainedLength(w) == SumSeq([i \in 1..Len(w.list) |-> w.seg[w.list[i]].len])

\* Objects nothing refers to any more are collected.
Referenced(w, map, where) ==
  {w.list[i] : i \in 1..Len(w.list)} \cup {map[r] : r \in Ribosomes} \cup {where}

Collect(w, map, where) ==
  [s \in SegIds |-> IF s \in Referenced(w, map, where) THEN w.seg[s] ELSE FreeSlot]

\* a call may construct two segments (a leader and the square segment its
\* overflow goes to)
HasRoom == Cardinality({s \in SegIds : seg[s].kind = "free"}) >= 2

NoCall == [name |-> "none", who |-> NoMolecule, length |-> 0]
Call(n, m, l) == [name |-> n, who |-> m, length |-> l]

\* return values: "null", "true", "false", or an attachment site (the site of
\* segment .site); "none" when the call returned nothing or threw
Returned(v) == [value |-> v, site |-> NoSeg]
ReturnedSite(s) == [value |-> "site", site |-> s]

(* MessengerRnaAttachmentStateMachine *)
attachedToRibosome(st) == "beingTranslated"
allRibosomesDetached(st) == "unattachedAndAvailable"
attachToDestroyer(st) == "beingDestroyed"
detach(st) == "unattachedAndAvailable"
forceImmediateUnattachedAndAvailable(st) == "unattachedAndAvailable"

\* The constructor: a single point and the empty leader segment.
Init ==
  /\ seg = [s \in SegIds |->
              IF s = 1 THEN [kind |-> "flat", cap |-> LEADER_LENGTH, len |-> 0,
                             site |-> NoMolecule]
              ELSE FreeSlot]
  /\ shapeSegments = <<1>>
  /\ points = <<0>>
  /\ mapRibosomeToShapeSegment = [r \in Ribosomes |-> NoSeg]
  /\ messengerRnaDestroyer = NoMolecule
  /\ segmentWhereDestroyerConnects = NoSeg
  /\ state = "beingSynthesized"
  /\ err = "none"
  /\ assertion = FALSE
  /\ ribosomeState = [r \in Ribosomes |-> "free"]
  /\ call = NoCall
  /\ ret = Returned("none")
  /\ ElsewhereInit

\* no call is made on a strand after an exception has escaped from one, nor
\* after the strand is destroyed
Alive == err = "none" /\ ~(call.name = "advanceDestruction" /\ ret.value = "true"
                           /\ segmentWhereDestroyerConnects # NoSeg)

\* the chain's part of WindingBiomolecule.addLength
AddToPoints(pts, length) ==
  LET last == pts[Len(pts)]
      room == INTER_POINT_DISTANCE - last
  IN  IF Len(pts) > 1 /\ room > 0
        THEN IF length <= room
               THEN [pts EXCEPT ![Len(pts)] = @ + length]
               ELSE Append([pts EXCEPT ![Len(pts)] = INTER_POINT_DISTANCE], length - room)
        ELSE Append(pts, length)

\* WindingBiomolecule.addLength, called by the polymerase while it transcribes
AddLength(length) ==
  /\ Alive /\ HasRoom
  /\ state = "beingSynthesized"
  /\ getLength(points) + length <= MaxLen
  \* the polymerase adds the same length in every step
  /\ Len(points) > 1 => length = points[2]
  /\ LET w == SegAdd(World, shapeSegments[Len(shapeSegments)], length)
     IN  /\ seg' = w.seg
         /\ shapeSegments' = w.list
         /\ assertion' = w.assertion
  /\ points' = AddToPoints(points, length)
  /\ call' = Call("addLength", NoMolecule, length)
  /\ ret' = Returned("none")
  /\ UNCHANGED <<mapRibosomeToShapeSegment, messengerRnaDestroyer,
                 segmentWhereDestroyerConnects, state, err, ribosomeState>>
  /\ UNCHANGED elsewhere

\* MessengerRna.releaseFromPolymerase
ReleaseFromPolymerase ==
  /\ Alive
  /\ state = "beingSynthesized"
  /\ getLength(points) > 0
  /\ state' = detach(state)
  /\ call' = Call("releaseFromPolymerase", NoMolecule, 0)
  /\ ret' = Returned("none")
  /\ UNCHANGED <<seg, shapeSegments, points, mapRibosomeToShapeSegment,
                 messengerRnaDestroyer, segmentWhereDestroyerConnects, err, assertion,
                 ribosomeState>>
  /\ UNCHANGED elsewhere

\* the positions a proposing molecule can be at: its distance to the site
Distances(limit) == {limit - 1, limit, limit + 1}

\* the proposer records itself in the site it was given
\* (attachmentSite.attachedOrAttachingMolecule = molecule)
ClaimSite(sg, s, m) == [sg EXCEPT ![s].site = m]

\* a molecule that lets go clears the site it held
ClearSite(sg, m) == [s \in SegIds |-> IF sg[s].site = m THEN [sg[s] EXCEPT !.site = NoMolecule]
                                      ELSE sg[s]]

\* the ribosome's test without the look at the destroyer
RibosomeProposalIgnoringDestroyer(distance) ==
  /\ seg[shapeSegments[1]].site = NoMolecule
  /\ distance < RIBOSOME_CONNECTION_DISTANCE

\* the ribosome's test with the distance compared by <=
RibosomeProposalAtTheLimit(distance) ==
  /\ messengerRnaDestroyer = NoMolecule
  /\ seg[shapeSegments[1]].site = NoMolecule
  /\ distance <= RIBOSOME_CONNECTION_DISTANCE

\* the ribosome's test without the look at the site
RibosomeProposalIgnoringSite(distance) ==
  /\ messengerRnaDestroyer = NoMolecule
  /\ distance < RIBOSOME_CONNECTION_DISTANCE

\* the test considerProposalFromByRibosome accepts on: not being destroyed,
\* the leading site free and the channel entrance in range
RibosomeProposalAccepted(distance) ==
  /\ messengerRnaDestroyer = NoMolecule
  /\ seg[shapeSegments[1]].site = NoMolecule
  /\ distance < RIBOSOME_CONNECTION_DISTANCE

\* MessengerRna.considerProposalFromByRibosome
ConsiderProposalFromByRibosome(ribosome, distance) ==
  /\ Alive
  /\ state # "beingSynthesized"
  /\ ribosomeState[ribosome] = "free"
  /\ call' = Call("considerProposalFromByRibosome", ribosome, 0)
  /\ IF messengerRnaDestroyer = NoMolecule /\ shapeSegments = <<>>
       THEN \* shapeSegments.get( 0 ).attachmentSite of an empty list
            /\ err' = "TypeError"
            /\ ret' = Returned("none")
            /\ UNCHANGED <<seg, mapRibosomeToShapeSegment, state, ribosomeState>>
       ELSE IF RibosomeProposalAccepted(distance)
         THEN /\ ret' = ReturnedSite(shapeSegments[1])
              /\ state' = attachedToRibosome(state)
              /\ mapRibosomeToShapeSegment' =
                   [mapRibosomeToShapeSegment EXCEPT ![ribosome] = shapeSegments[1]]
              /\ seg' = ClaimSite(seg, shapeSegments[1], ribosome)
              /\ ribosomeState' = [ribosomeState EXCEPT ![ribosome] = "moving"]
              /\ UNCHANGED err
         ELSE /\ ret' = Returned("null")
              /\ UNCHANGED <<seg, mapRibosomeToShapeSegment, state, ribosomeState, err>>
  /\ UNCHANGED <<shapeSegments, points, messengerRnaDestroyer,
                 segmentWhereDestroyerConnects, assertion>>
  /\ UNCHANGED elsewhere

\* the test considerProposalFromByMessengerRnaDestroyer accepts on
DestroyerProposalAccepted(distance) ==
  /\ messengerRnaDestroyer = NoMolecule
  /\ seg[shapeSegments[1]].site = NoMolecule
  /\ distance < MRNA_DESTROYER_CONNECT_DISTANCE

\* MessengerRna.considerProposalFromByMessengerRnaDestroyer
ConsiderProposalFromByMessengerRnaDestroyer(destroyer, distance) ==
  /\ Alive
  /\ state # "beingSynthesized"
  /\ messengerRnaDestroyer # destroyer
  /\ call' = Call("considerProposalFromByMessengerRnaDestroyer", destroyer, 0)
  /\ IF messengerRnaDestroyer = NoMolecule /\ shapeSegments = <<>>
       THEN /\ err' = "TypeError"
            /\ ret' = Returned("none")
            /\ UNCHANGED <<seg, messengerRnaDestroyer, state>>
       ELSE IF DestroyerProposalAccepted(distance)
         THEN /\ ret' = ReturnedSite(shapeSegments[1])
              /\ state' = attachToDestroyer(state)
              /\ messengerRnaDestroyer' = destroyer
              /\ seg' = ClaimSite(seg, shapeSegments[1], destroyer)
              /\ UNCHANGED err
         ELSE /\ ret' = Returned("null")
              /\ UNCHANGED <<seg, messengerRnaDestroyer, state, err>>
  /\ UNCHANGED <<shapeSegments, points, mapRibosomeToShapeSegment,
                 segmentWhereDestroyerConnects, assertion, ribosomeState>>
  /\ UNCHANGED elsewhere

\* abortDestruction without the reset of the destroyer reference
AbortDestructionKeepingDestroyer ==
  /\ Alive
  /\ messengerRnaDestroyer # NoMolecule
  /\ segmentWhereDestroyerConnects = NoSeg
  /\ state' = forceImmediateUnattachedAndAvailable(state)
  /\ call' = Call("abortDestruction", messengerRnaDestroyer, 0)
  /\ ret' = Returned("none")
  /\ UNCHANGED <<seg, shapeSegments, points, mapRibosomeToShapeSegment,
                 messengerRnaDestroyer, segmentWhereDestroyerConnects, err, assertion,
                 ribosomeState>>
  /\ UNCHANGED elsewhere

\* MessengerRna.abortDestruction: the destroyer was picked up on its way
AbortDestruction ==
  /\ Alive
  /\ messengerRnaDestroyer # NoMolecule
  /\ segmentWhereDestroyerConnects = NoSeg
  /\ messengerRnaDestroyer' = NoMolecule
  /\ state' = forceImmediateUnattachedAndAvailable(state)
  /\ seg' = ClearSite(seg, messengerRnaDestroyer)
  /\ call' = Call("abortDestruction", messengerRnaDestroyer, 0)
  /\ ret' = Returned("none")
  /\ UNCHANGED <<shapeSegments, points, mapRibosomeToShapeSegment,
                 segmentWhereDestroyerConnects, err, assertion, ribosomeState>>
  /\ UNCHANGED elsewhere

\* MessengerRna.initiateTranslation: the ribosome has arrived at the site
InitiateTranslation(ribosome) ==
  /\ Alive
  /\ ribosomeState[ribosome] = "moving"
  /\ call' = Call("initiateTranslation", ribosome, 0)
  /\ ret' = Returned("none")
  /\ IF shapeSegments = <<>>
       THEN /\ err' = "TypeError"
            /\ UNCHANGED <<seg, ribosomeState>>
       ELSE /\ seg' = setCapacity(World, shapeSegments[1],
                                  TranslationChannelLength + LEADER_LENGTH).seg
            /\ ribosomeState' = [ribosomeState EXCEPT ![ribosome] = "translating"]
            /\ UNCHANGED err
  /\ UNCHANGED <<shapeSegments, points, mapRibosomeToShapeSegment, messengerRnaDestroyer,
                 segmentWhereDestroyerConnects, state, assertion>>
  /\ UNCHANGED elsewhere

\* MessengerRna.initiateDestruction: the destroyer has arrived at the site
InitiateDestruction(destroyer) ==
  /\ Alive
  /\ messengerRnaDestroyer = destroyer
  /\ segmentWhereDestroyerConnects = NoSeg
  /\ call' = Call("initiateDestruction", destroyer, 0)
  /\ ret' = Returned("none")
  /\ IF shapeSegments = <<>>
       THEN /\ err' = "TypeError"
            /\ UNCHANGED <<seg, segmentWhereDestroyerConnects>>
       ELSE /\ segmentWhereDestroyerConnects' = shapeSegments[1]
            /\ seg' = setCapacity(World, shapeSegments[1],
                                  DestructionChannelLength + LEADER_LENGTH).seg
            /\ UNCHANGED err
  /\ UNCHANGED <<shapeSegments, points, mapRibosomeToShapeSegment, messengerRnaDestroyer,
                 state, assertion, ribosomeState>>
  /\ UNCHANGED elsewhere

\* the return value with < for <=
NothingLeftStrictly(w, s) == w.seg[s].len < 0

\* what advanceTranslation returns: segmentToAdvance.getContainedLength() <= 0
NothingLeft(w, s) == w.seg[s].len <= 0

\* MessengerRna.advanceTranslation
AdvanceTranslation(ribosome, length) ==
  /\ Alive /\ HasRoom
  /\ ribosomeState[ribosome] = "translating"
  /\ LET segmentToAdvance == mapRibosomeToShapeSegment[ribosome]
         w == FlatAdvance(World, segmentToAdvance, length)
     IN  /\ seg[segmentToAdvance].kind = "flat"
         /\ seg' = Collect(w, mapRibosomeToShapeSegment, segmentWhereDestroyerConnects)
         /\ shapeSegments' = w.list
         /\ err' = w.err
         /\ assertion' = w.assertion
         /\ ret' = IF w.err # "none" THEN Returned("none")
                   ELSE IF NothingLeft(w, segmentToAdvance) THEN Returned("true")
                   ELSE Returned("false")
         /\ ribosomeState' =
              IF w.err = "none" /\ NothingLeft(w, segmentToAdvance)
                THEN [ribosomeState EXCEPT ![ribosome] = "done"]
                ELSE ribosomeState
  /\ call' = Call("advanceTranslation", ribosome, length)
  /\ UNCHANGED <<points, mapRibosomeToShapeSegment, messengerRnaDestroyer,
                 segmentWhereDestroyerConnects, state>>
  /\ UNCHANGED elsewhere

\* releaseFromRibosome without its test for remaining ribosomes
ReleaseFromRibosomeAlwaysNotifying(ribosome) ==
  /\ Alive
  /\ ribosomeState[ribosome] \in {"moving", "done"}
  /\ LET map == [mapRibosomeToShapeSegment EXCEPT ![ribosome] = NoSeg]
     IN  /\ mapRibosomeToShapeSegment' = map
         /\ state' = allRibosomesDetached(state)
         /\ seg' = Collect([World EXCEPT !.seg = ClearSite(seg, ribosome)], map,
                           segmentWhereDestroyerConnects)
  /\ ribosomeState' = [ribosomeState EXCEPT ![ribosome] =
                         IF @ = "done" THEN "retired" ELSE "free"]
  /\ call' = Call("releaseFromRibosome", ribosome, 0)
  /\ ret' = Returned("none")
  /\ UNCHANGED <<shapeSegments, points, messengerRnaDestroyer,
                 segmentWhereDestroyerConnects, err, assertion>>
  /\ UNCHANGED elsewhere

\* MessengerRna.releaseFromRibosome
ReleaseFromRibosome(ribosome) ==
  /\ Alive
  /\ ribosomeState[ribosome] \in {"moving", "done"}
  /\ LET map == [mapRibosomeToShapeSegment EXCEPT ![ribosome] = NoSeg]
     IN  /\ mapRibosomeToShapeSegment' = map
         /\ state' = IF \A r \in Ribosomes : map[r] = NoSeg
                       THEN allRibosomesDetached(state)
                       ELSE state
         /\ seg' = Collect([World EXCEPT !.seg = ClearSite(seg, ribosome)], map,
                           segmentWhereDestroyerConnects)
  /\ ribosomeState' = [ribosomeState EXCEPT ![ribosome] =
                         IF @ = "done" THEN "retired" ELSE "free"]
  /\ call' = Call("releaseFromRibosome", ribosome, 0)
  /\ ret' = Returned("none")
  /\ UNCHANGED <<shapeSegments, points, messengerRnaDestroyer,
                 segmentWhereDestroyerConnects, err, assertion>>
  /\ UNCHANGED elsewhere

\* the loop of MessengerRna.reduceLength over the shape-defining points;
\* toRemove is reductionAmount - amountRemoved
RECURSIVE RemoveFromPoints(_, _)
RemoveFromPoints(p, toRemove) ==
  IF ~(toRemove > 0) THEN [points |-> p, err |-> "none"]
  ELSE IF p[Len(p)] <= toRemove
    THEN IF Len(p) = 1
           THEN \* getPreviousPointMass() of the first point is null
                [points |-> p, err |-> "TypeError"]
           ELSE RemoveFromPoints(SubSeq(p, 1, Len(p) - 1), toRemove - p[Len(p)])
    ELSE [points |-> [p EXCEPT ![Len(p)] = @ - toRemove], err |-> "none"]

\* reduceLength with > for >= in its first test
reduceLengthBeyondOnly(w, p, reductionAmount) ==
  IF reductionAmount > getLength(p)
    THEN [w |-> [w EXCEPT !.list = <<>>], points |-> <<p[1]>>, err |-> "none"]
    ELSE LET w1 == FlatAdvanceAndRemove(w, segmentWhereDestroyerConnects, reductionAmount)
             r == RemoveFromPoints(p, reductionAmount)
         IN  [w |-> w1, points |-> r.points, err |-> r.err]

\* MessengerRna.reduceLength
reduceLength(w, p, reductionAmount) ==
  IF reductionAmount >= getLength(p)
    THEN [w |-> [w EXCEPT !.list = <<>>], points |-> <<p[1]>>, err |-> "none"]
    ELSE LET w1 == FlatAdvanceAndRemove(w, segmentWhereDestroyerConnects, reductionAmount)
             r == RemoveFromPoints(p, reductionAmount)
         IN  [w |-> w1, points |-> r.points, err |-> r.err]

\* advanceDestruction without its test for a missing segment
AdvanceDestructionUnchecked(length) ==
  /\ Alive
  /\ call' = Call("advanceDestruction", messengerRnaDestroyer, length)
  /\ IF segmentWhereDestroyerConnects = NoSeg
       THEN /\ err' = "TypeError"
            /\ ret' = Returned("none")
            /\ UNCHANGED <<seg, shapeSegments, points>>
       ELSE LET r == reduceLength(World, points, length)
            IN  /\ seg[segmentWhereDestroyerConnects].kind = "flat"
                /\ seg' = Collect(r.w, mapRibosomeToShapeSegment,
                                  segmentWhereDestroyerConnects)
                /\ shapeSegments' = r.w.list
                /\ points' = r.points
                /\ err' = r.err
                /\ ret' = IF r.err # "none" THEN Returned("none")
                          ELSE IF Len(r.points) = 1 THEN Returned("true")
                          ELSE Returned("false")
  /\ UNCHANGED <<mapRibosomeToShapeSegment, messengerRnaDestroyer,
                 segmentWhereDestroyerConnects, state, assertion, ribosomeState>>
  /\ UNCHANGED elsewhere

\* MessengerRna.advanceDestruction
AdvanceDestruction(length) ==
  /\ Alive
  /\ call' = Call("advanceDestruction", messengerRnaDestroyer, length)
  /\ IF segmentWhereDestroyerConnects = NoSeg
       THEN /\ ret' = Returned("true")
            /\ UNCHANGED <<seg, shapeSegments, points, err>>
       ELSE LET r == reduceLength(World, points, length)
            IN  /\ seg[segmentWhereDestroyerConnects].kind = "flat"
                /\ seg' = Collect(r.w, mapRibosomeToShapeSegment,
                                  segmentWhereDestroyerConnects)
                /\ shapeSegments' = r.w.list
                /\ points' = r.points
                /\ err' = r.err
                /\ ret' = IF r.err # "none" THEN Returned("none")
                          ELSE IF Len(r.points) = 1 THEN Returned("true")
                          ELSE Returned("false")
  /\ UNCHANGED <<mapRibosomeToShapeSegment, messengerRnaDestroyer,
                 segmentWhereDestroyerConnects, state, assertion, ribosomeState>>
  /\ UNCHANGED elsewhere

(* The shape-defining points as the linked objects they are. The strand's   *)
(* state above keeps the distances along the chain (points); here the same  *)
(* chain has its previous and next references, and reduceLength is the      *)
(* statements that move them.                                               *)

\* null, for a point reference
NoPoint == 0
PointIds == 1..(MaxLen + 1)

\* new PointMass( position, targetDistanceToPreviousPoint )
NewPointMass(targetDistance) ==
  [targetDistanceToPreviousPoint |-> targetDistance,
   previousPointMass |-> NoPoint,
   nextPointMass |-> NoPoint]

\* the chain whose distances are p, point i of p being object i
Chain(p) ==
  [firstShapeDefiningPoint |-> 1,
   lastShapeDefiningPoint |-> Len(p),
   mass |-> [i \in PointIds |->
               IF i <= Len(p)
                 THEN [NewPointMass(p[i]) EXCEPT
                         !.previousPointMass = i - 1,
                         !.nextPointMass = IF i = Len(p) THEN NoPoint ELSE i + 1]
                 ELSE NewPointMass(0)],
   err |-> "none"]

\* the points met from point i on by getNextPointMass(), at most fuel of them
RECURSIVE PointsFrom(_, _, _)
PointsFrom(c, i, fuel) ==
  IF i = NoPoint \/ fuel = 0 THEN <<>>
  ELSE <<i>> \o PointsFrom(c, c.mass[i].nextPointMass, fuel - 1)

\* getTargetDistanceToPreviousPoint() of the points from the first one on
ChainDistances(c) ==
  LET path == PointsFrom(c, c.firstShapeDefiningPoint, MaxLen + 2)
  IN  [k \in 1..Len(path) |-> c.mass[path[k]].targetDistanceToPreviousPoint]

\* the loop of reduceLength that forgets setNextPointMass( null )
RECURSIVE RemoveFromChainKeepingNext(_, _)
RemoveFromChainKeepingNext(c, toRemove) ==
  IF ~(toRemove > 0) THEN c
  ELSE IF c.mass[c.lastShapeDefiningPoint].targetDistanceToPreviousPoint <= toRemove
    THEN IF c.mass[c.lastShapeDefiningPoint].previousPointMass = NoPoint
           THEN [c EXCEPT !.lastShapeDefiningPoint = NoPoint, !.err = "TypeError"]
           ELSE RemoveFromChainKeepingNext(
                  [c EXCEPT !.lastShapeDefiningPoint =
                              c.mass[c.lastShapeDefiningPoint].previousPointMass],
                  toRemove - c.mass[c.lastShapeDefiningPoint].targetDistanceToPreviousPoint)
    ELSE [c EXCEPT !.mass[c.lastShapeDefiningPoint].targetDistanceToPreviousPoint =
                     @ - toRemove]

\* the loop of MessengerRna.reduceLength, on the linked points; toRemove is
\* reductionAmount - amountRemoved
RECURSIVE RemoveFromChain(_, _)
RemoveFromChain(c, toRemove) ==
  IF ~(toRemove > 0) THEN c
  ELSE IF c.mass[c.lastShapeDefiningPoint].targetDistanceToPreviousPoint <= toRemove
    THEN IF c.mass[c.lastShapeDefiningPoint].previousPointMass = NoPoint
           THEN \* setNextPointMass of null
                [c EXCEPT !.lastShapeDefiningPoint = NoPoint, !.err = "TypeError"]
           ELSE RemoveFromChain(
                  [c EXCEPT !.lastShapeDefiningPoint =
                              c.mass[c.lastShapeDefiningPoint].previousPointMass,
                            !.mass[c.mass[c.lastShapeDefiningPoint].previousPointMass]
                               .nextPointMass = NoPoint],
                  toRemove - c.mass[c.lastShapeDefiningPoint].targetDistanceToPreviousPoint)
    ELSE [c EXCEPT !.mass[c.lastShapeDefiningPoint].targetDistanceToPreviousPoint =
                     @ - toRemove]

\* MessengerRna.reduceLength, its part for the shape-defining points
reduceLengthOfChain(c, reductionAmount) ==
  IF reductionAmount >= SumSeq(ChainDistances(c))
    THEN [c EXCEPT !.lastShapeDefiningPoint = c.firstShapeDefiningPoint,
                   !.mass[c.firstShapeDefiningPoint].nextPointMass = NoPoint]
    ELSE RemoveFromChain(c, reductionAmount)

(* Queries: they read the state and change nothing *)

\* new Vector2( 0, 0 )
ZeroVector == [kind |-> "Vector2", from |-> "origin", dx |-> 0]
\* a point dx to the right of a corner of a segment (segments' positions are
\* the view's business and are not part of the state)
CornerVector(corner, dx) == [kind |-> "Vector2", from |-> corner, dx |-> dx]
\* null, where a vector is expected
NullVector == [kind |-> "null", from |-> "nowhere", dx |-> 0]

\* MessengerRna.getRibosomeAttachmentLocation
getRibosomeAttachmentLocation(ribosome) ==
  IF mapRibosomeToShapeSegment[ribosome] = NoSeg
    THEN NullVector
    ELSE IF getPreviousShapeSegment(World, mapRibosomeToShapeSegment[ribosome]) = NoSeg
           THEN CornerVector("lowerRight", 0 - LEADER_LENGTH)
           ELSE CornerVector("upperLeft", TranslationChannelLength)

\* MessengerRna.getDestroyerAttachmentLocation
getDestroyerAttachmentLocation ==
  IF segmentWhereDestroyerConnects = NoSeg
    THEN ZeroVector
    ELSE CornerVector("lowerRight", 0 - LEADER_LENGTH)

\* the segment's lower right corner is this far to the right of its attachment
\* site; the site is somewhere on the segment, whose width is what it contains
SiteOffsets(s) == 0..(IF seg[s].len > 0 THEN seg[s].len ELSE 0)

\* MessengerRna.getProportionOfRnaTranslated: the quotient, as the translated
\* length (never below zero) over the length of the chain. siteOffset is
\* getLowerRightCornerPos().x - attachmentSite.locationProperty.get().x
getProportionOfRnaTranslated(ribosome, siteOffset) ==
  LET segmentInRibosomeChannel == mapRibosomeToShapeSegment[ribosome]
      at == IndexOf(shapeSegments, segmentInRibosomeChannel)
      preceding == IF at = 0 THEN Len(shapeSegments) ELSE at - 1
      translatedLength ==
        SumSeq([i \in 1..preceding |-> seg[shapeSegments[i]].len])
          + seg[segmentInRibosomeChannel].len - siteOffset
  IN  [translated |-> IF translatedLength > 0 THEN translatedLength ELSE 0,
       of |-> getLength(points)]

(* The bounds of a flat segment along x. The strand's state keeps what a    *)
(* segment contains, which is the width of its bounds; where the bounds lie  *)
(* is followed here through one call of FlatSegment.advance.                *)

\* a flat segment's bounds, with its lower right corner at the origin
BoundsOf(w, s) == [minX |-> 0 - w.seg[s].len, maxX |-> 0]

\* FlatSegment.add: the bounds grow to the left
BoundsAdd(b, growthAmount) ==
  [minX |-> b.minX - growthAmount, maxX |-> b.minX + (b.maxX - b.minX)]

\* FlatSegment.remove: the right edge comes in
BoundsRemove(b, length) ==
  [minX |-> b.minX, maxX |-> b.minX + (b.maxX - b.minX) - length]

\* FlatSegment.maxOutLength
BoundsMaxOut(b, capacity) ==
  [minX |-> b.minX - (capacity - (b.maxX - b.minX)),
   maxX |-> b.minX - (capacity - (b.maxX - b.minX)) + capacity]

\* FlatSegment.advance: what it does to the bounds b of the segment it is
\* called on
AdvanceBounds(w, s, length, b) ==
  LET inputSegment == getNextShapeSegment(w, s)
  IN
  IF inputSegment = NoSeg THEN
    BoundsRemove(b, Min(length, w.seg[s].len))
  ELSE IF w.seg[inputSegment].len > length THEN
    IF w.seg[s].len + length <= w.seg[s].cap THEN
      BoundsAdd(b, length)
    ELSE IF AboveCompFactor(getRemainingCapacity(w, s)) THEN
      BoundsMaxOut(b, w.seg[s].cap)
    ELSE b
  ELSE
    BoundsRemove(b, length - w.seg[inputSegment].len)

\* the x of a vector that is given from a corner of a segment with bounds b
VectorX(v, b) ==
  IF v.from = "lowerRight" THEN b.maxX + v.dx
  ELSE IF v.from = "upperLeft" THEN b.minX + v.dx
  ELSE v.dx

Next ==
  \/ \E length \in 1..MaxAdd : AddLength(length)
  \/ ReleaseFromPolymerase
  \/ \E r \in Ribosomes, d \in Distances(RIBOSOME_CONNECTION_DISTANCE) :
       ConsiderProposalFromByRibosome(r, d)
  \/ \E m \in Destroyers, d \in Distances(MRNA_DESTROYER_CONNECT_DISTANCE) :
       ConsiderProposalFromByMessengerRnaDestroyer(m, d)
  \/ AbortDestruction
  \/ \E r \in Ribosomes : InitiateTranslation(r)
  \/ \E m \in Destroyers : InitiateDestruction(m)
  \/ \E r \in Ribosomes, length \in 1..MaxStep : AdvanceTranslation(r, length)
  \/ \E r \in Ribosomes : ReleaseFromRibosome(r)
  \/ \E length \in 1..MaxStep : AdvanceDestruction(length)

Spec == Init /\ [][Next]_vars

----------------------------------------------------------------------------
(* One ribosome translating a strand, with nothing else going on: the      *)
(* polymerase transcribes and lets go, the ribosome attaches (or turns    *)
(* back on its way), and once it has arrived its state machine calls       *)
(* advanceTranslation at every clock step, with the same length each time, *)
(* and lets go of the strand when a call has returned true.                *)

TheRibosome == "r1"

AdvanceTranslationSteadily(length) ==
  /\ call.name = "advanceTranslation" => length = call.length
  /\ AdvanceTranslation(TheRibosome, length)

TranslationNext ==
  \/ \E length \in 1..MaxAdd : AddLength(length)
  \/ ReleaseFromPolymerase
  \/ \E d \in Distances(RIBOSOME_CONNECTION_DISTANCE) :
       ConsiderProposalFromByRibosome(TheRibosome, d)
  \/ InitiateTranslation(TheRibosome)
  \/ \E length \in 1..MaxStep : AdvanceTranslationSteadily(length)
  \/ ReleaseFromRibosome(TheRibosome)

TranslationSpec ==
  /\ Init
  /\ [][TranslationNext]_vars
  /\ WF_vars(\E length \in 1..MaxStep : AdvanceTranslationSteadily(length))

----------------------------------------------------------------------------
(* The two initiate methods as the port has them. Above they are taken as   *)
(* the reference text has them, so that a translation can begin at all;    *)
(* here they are the statements of lines 322-344, in a strand on which     *)
(* every other method is as above. advanceTranslation is left out: no      *)
(* ribosome gets as far as translating.                                    *)

\* a number plus undefined (MessengerRna.jsLEADER_LENGTH is not defined). No
\* call that can follow initiateDestruction reads a capacity, so the marker is
\* never compared with a number.
NaN == 0 - 1

\* MessengerRna.initiateTranslation: this.ribosome is not a field of the
\* strand, and reading getTranslationChannelLength of undefined raises
InitiateTranslationAsPorted(ribosome) ==
  /\ Alive
  /\ ribosomeState[ribosome] = "moving"
  /\ call' = Call("initiateTranslation", ribosome, 0)
  /\ ret' = Returned("none")
  /\ err' = "TypeError"
  /\ UNCHANGED <<seg, shapeSegments, points, mapRibosomeToShapeSegment,
                 messengerRnaDestroyer, segmentWhereDestroyerConnects, state,
                 assertion, ribosomeState>>
  /\ UNCHANGED elsewhere

\* MessengerRna.initiateDestruction
InitiateDestructionAsPorted(destroyer) ==
  /\ Alive
  /\ messengerRnaDestroyer = destroyer
  /\ segmentWhereDestroyerConnects = NoSeg
  /\ call' = Call("initiateDestruction", destroyer, 0)
  /\ ret' = Returned("none")
  /\ IF shapeSegments = <<>>
       THEN /\ err' = "TypeError"
            /\ UNCHANGED <<seg, segmentWhereDestroyerConnects>>
       ELSE /\ segmentWhereDestroyerConnects' = shapeSegments[1]
            /\ seg' = setCapacity(World, shapeSegments[1], NaN).seg
            /\ UNCHANGED err
  /\ UNCHANGED <<shapeSegments, points, mapRibosomeToShapeSegment, messengerRnaDestroyer,
                 state, assertion, ribosomeState>>
  /\ UNCHANGED elsewhere

PortNext ==
  \/ \E length \in 1..MaxAdd : AddLength(length)
  \/ ReleaseFromPolymerase
  \/ \E r \in Ribosomes, d \in Distances(RIBOSOME_CONNECTION_DISTANCE) :
       ConsiderProposalFromByRibosome(r, d)
  \/ \E m \in Destroyers, d \in Distances(MRNA_DESTROYER_CONNECT_DISTANCE) :
       ConsiderProposalFromByMessengerRnaDestroyer(m, d)
  \/ AbortDestruction
  \/ \E r \in Ribosomes : InitiateTranslationAsPorted(r)
  \/ \E m \in Destroyers : InitiateDestructionAsPorted(m)
  \/ \E r \in Ribosomes : ReleaseFromRibosome(r)
  \/ \E length \in 1..MaxStep : AdvanceDestruction(length)

PortSpec == Init /\ [][PortNext]_vars

-----------------------------------------------------------------------------
(* MotionBounds (RandomWalkMotionStrategy.js, lines 128-230).  Bounds2 is   *)
(* the library's mutable rectangle: set copies the argument's coordinates   *)
(* into the receiver and containsBounds compares coordinates.  The library  *)
(* is not part of this repository; a build of it that guards its constant   *)
(* EVERYTHING makes set on that object throw instead, and the model has     *)
(* both outcomes.                                                           *)

\* Bounds2.containsBounds
containsBounds(this, bounds) ==
  this.minX <= bounds.minX /\ this.maxX >= bounds.maxX

\* new MotionBounds(): no bounds given, this.bounds is Bounds2.EVERYTHING
NewMotionBounds(m) ==
  /\ motionBounds[m] = Unconstructed
  /\ motionBounds' = [motionBounds EXCEPT ![m] = "Bounds2.EVERYTHING"]
  /\ motionCall' = [name |-> "new", who |-> m, threw |-> FALSE]
  /\ UNCHANGED <<bounds2, vars, viewVars>>

\* new MotionBounds( bounds ): this.bounds is the caller's object
NewMotionBoundsWith(m, bounds) ==
  /\ motionBounds[m] = Unconstructed
  /\ motionBounds' = [motionBounds EXCEPT ![m] = m]
  /\ bounds2' = [bounds2 EXCEPT ![m] = bounds]
  /\ motionCall' = [name |-> "new", who |-> m, threw |-> FALSE]
  /\ UNCHANGED <<vars, viewVars>>

\* set: this.bounds.set( bounds ) writes into the object this.bounds refers to
MotionBoundsSet(m, bounds) ==
  /\ motionBounds[m] # Unconstructed
  /\ \/ /\ bounds2' = [bounds2 EXCEPT ![motionBounds[m]] = bounds]
        /\ motionCall' = [name |-> "set", who |-> m, threw |-> FALSE]
     \/ /\ motionBounds[m] = "Bounds2.EVERYTHING"
        /\ motionCall' = [name |-> "set", who |-> m, threw |-> TRUE]
        /\ UNCHANGED bounds2
  /\ UNCHANGED <<motionBounds, vars, viewVars>>

\* inBounds: this.bounds is never null once the constructor has run
inBounds(m, bounds) == containsBounds(bounds2[motionBounds[m]], bounds)

MotionBoundsNext ==
  \/ \E m \in MotionBoundsInstances : NewMotionBounds(m)
  \/ \E m \in MotionBoundsInstances, bounds \in FiniteBounds : NewMotionBoundsWith(m, bounds)
  \/ \E m \in MotionBoundsInstances, bounds \in FiniteBounds : MotionBoundsSet(m, bounds)

MotionBoundsSpec == Init /\ [][MotionBoundsNext]_allVars

-----------------------------------------------------------------------------
(* ManualGeneExpressionScreenView (lines 113-133): the nodes of the mobile  *)
(* biomolecules.  The model's list is an observable array; adding an item   *)
(* calls the registered item-added listeners with it, removing one calls    *)
(* the registered item-removed listeners with it.  The model holds each     *)
(* biomolecule at most once.                                                *)

RECURSIVE SumOver(_, _)
SumOver(f, S) ==
  IF S = {} THEN 0
  ELSE LET b == CHOOSE x \in S : TRUE IN f[b] + SumOver(f, S \ {b})

\* The constructor: a node for every biomolecule already in the list, then the
\* item-added listener is registered
NewScreenView ==
  /\ screenView = "none"
  /\ screenView' = "constructed"
  /\ topBiomoleculeLayer' =
       [b \in Biomolecules |-> IF b \in mobileBiomoleculeList THEN 1 ELSE 0]
  /\ UNCHANGED <<mobileBiomoleculeList, itemRemovedListeners, addedBiomolecules>>
  /\ UNCHANGED <<vars, motionVars>>

\* mobileBiomoleculeList.add( addedBiomolecule ): with the view made, its
\* item-added listener adds a node and registers a removeItemListener
AddBiomolecule(addedBiomolecule) ==
  /\ addedBiomolecule \notin mobileBiomoleculeList
  /\ mobileBiomoleculeList' = mobileBiomoleculeList \cup {addedBiomolecule}
  /\ IF screenView = "constructed"
       THEN /\ topBiomoleculeLayer' =
                 [topBiomoleculeLayer EXCEPT ![addedBiomolecule] = @ + 1]
            /\ itemRemovedListeners' =
                 [itemRemovedListeners EXCEPT ![addedBiomolecule] = @ + 1]
            /\ addedBiomolecules' = addedBiomolecules \cup {addedBiomolecule}
       ELSE UNCHANGED <<topBiomoleculeLayer, itemRemovedListeners, addedBiomolecules>>
  /\ UNCHANGED <<screenView, vars, motionVars>>

\* mobileBiomoleculeList.remove( removedBiomolecule ): every registered
\* removeItemListener is called; those made for this biomolecule remove their
\* node and unregister themselves
RemoveBiomolecule(removedBiomolecule) ==
  /\ removedBiomolecule \in mobileBiomoleculeList
  /\ mobileBiomoleculeList' = mobileBiomoleculeList \ {removedBiomolecule}
  /\ topBiomoleculeLayer' =
       [topBiomoleculeLayer EXCEPT ![removedBiomolecule] =
          @ - itemRemovedListeners[removedBiomolecule]]
  /\ itemRemovedListeners' = [itemRemovedListeners EXCEPT ![removedBiomolecule] = 0]
  /\ addedBiomolecules' = addedBiomolecules \ {removedBiomolecule}
  /\ UNCHANGED <<screenView, vars, motionVars>>

ViewNext ==
  \/ NewScreenView
  \/ \E b \in Biomolecules : AddBiomolecule(b)
  \/ \E b \in Biomolecules : RemoveBiomolecule(b)

ViewSpec == Init /\ [][ViewNext]_allVars

----------------------------------------------------------------------------
(* Properties *)

\* C1: length conservation.  In every state reached by calls that returned,
\* the contained lengths of the segments of the list add up to the target
\* distances along the chain of points.
C1_LengthConservation ==
  err = "none" => ContainedLength(World) = getLength(points)

\* C2: overflow splitting.  In every reachable state, add( length ) on a flat
\* segment of the list whose room r = capacity - contained length is less
\* than length leaves the segment at exactly its capacity and puts exactly
\* one new segment, holding length - r, right after it in the list; no
\* other segment changes.
C2_OverflowSplitting ==
  \A i \in 1..Len(shapeSegments), length \in 1..MaxLen :
    LET s == shapeSegments[i]
        r == seg[s].cap - seg[s].len
        w == FlatAdd(World, s, length)
    IN  (err = "none" /\ seg[s].kind = "flat" /\ r < length) =>
          /\ w.seg[s].len = seg[s].cap
          /\ Len(w.list) = Len(shapeSegments) + 1
          /\ seg[w.list[i + 1]].kind = "free"
          /\ w.list = InsertAt(shapeSegments, i + 1, w.list[i + 1])
          /\ w.seg[w.list[i + 1]].len = length - r
          /\ \A u \in SegIds \ {s, w.list[i + 1]} : w.seg[u] = seg[u]

\* C2, its case: the polymerase has added a length to a leader segment that
\* had less room than that, the leader is at its capacity and the new
\* segment after it holds the rest.
C2_Witness ==
  /\ call.name = "addLength"
  /\ Len(shapeSegments) = 2
  /\ seg[shapeSegments[1]].kind = "flat"
  /\ seg[shapeSegments[1]].len = LEADER_LENGTH
  /\ seg[shapeSegments[2]].kind = "square"
  /\ seg[shapeSegments[2]].len = call.length
  /\ getLength(points) = LEADER_LENGTH + call.length

\* C3: destruction is terminal.  While a destroyer is set, before and after
\* initiateDestruction, every proposal from a ribosome or from a destroyer
\* returns null and changes nothing of the strand, whatever was called in
\* between; and the destroyer reference changes only by abortDestruction
\* setting it to null, so no second destroyer succeeds without an abort.
C3_DestructionIsTerminal ==
  [][messengerRnaDestroyer # NoMolecule =>
       /\ call'.name \in {"considerProposalFromByRibosome",
                          "considerProposalFromByMessengerRnaDestroyer"} =>
            /\ ret' = Returned("null")
            /\ UNCHANGED <<seg, shapeSegments, points, mapRibosomeToShapeSegment,
                           messengerRnaDestroyer, segmentWhereDestroyerConnects, state>>
       /\ messengerRnaDestroyer' # messengerRnaDestroyer =>
            call'.name = "abortDestruction" /\ messengerRnaDestroyer' = NoMolecule]_vars

\* C3, its case: destruction has been initiated, the segment now leading the
\* list has a free site, and a ribosome's proposal has just been turned down.
C3_Witness ==
  /\ messengerRnaDestroyer # NoMolecule
  /\ segmentWhereDestroyerConnects # NoSeg
  /\ err = "none"
  /\ shapeSegments # <<>>
  /\ seg[shapeSegments[1]].site = NoMolecule
  /\ call.name = "considerProposalFromByRibosome"
  /\ ret = Returned("null")

\* C4: considerProposalFromByRibosome returns the leading segment's site if
\* and only if no destroyer is set, that site is free and the distance is
\* strictly below RIBOSOME_CONNECTION_DISTANCE; on acceptance the map gains
\* exactly ribosome -> segment 0 and the state machine gets
\* attachedToRibosome; otherwise it returns null and the map, the destroyer
\* and the state machine are unchanged.
C4_RibosomeProposal ==
  [][\A r \in Ribosomes, d \in Distances(RIBOSOME_CONNECTION_DISTANCE) :
       ConsiderProposalFromByRibosome(r, d) =>
         IF /\ messengerRnaDestroyer = NoMolecule
            /\ seg[shapeSegments[1]].site = NoMolecule
            /\ d < RIBOSOME_CONNECTION_DISTANCE
           THEN /\ ret' = ReturnedSite(shapeSegments[1])
                /\ mapRibosomeToShapeSegment' =
                     [mapRibosomeToShapeSegment EXCEPT ![r] = shapeSegments[1]]
                /\ state' = "beingTranslated"
                /\ UNCHANGED messengerRnaDestroyer
           ELSE /\ ret' = Returned("null")
                /\ UNCHANGED <<mapRibosomeToShapeSegment, messengerRnaDestroyer, state>>]_vars

\* C4, its case: a ribosome's proposal has been accepted on a strand that
\* another ribosome is already translating.
C4_Witness ==
  /\ call.name = "considerProposalFromByRibosome"
  /\ ret = ReturnedSite(shapeSegments[1])
  /\ mapRibosomeToShapeSegment[call.who] = shapeSegments[1]
  /\ \E r \in Ribosomes : r # call.who /\ ribosomeState[r] = "translating"
  /\ state = "beingTranslated"

C6_AbortDestruction ==
  [][/\ call'.name = "abortDestruction" =>
          /\ messengerRnaDestroyer # NoMolecule
          /\ segmentWhereDestroyerConnects = NoSeg
          /\ messengerRnaDestroyer' = NoMolecule
          /\ state' = "unattachedAndAvailable"
          /\ UNCHANGED <<shapeSegments, points, mapRibosomeToShapeSegment>>
     /\ \A r \in Ribosomes, d \in Distances(RIBOSOME_CONNECTION_DISTANCE) :
          (/\ call.name = "abortDestruction"
           /\ ConsiderProposalFromByRibosome(r, d)
           /\ seg[shapeSegments[1]].site = NoMolecule
           /\ d < RIBOSOME_CONNECTION_DISTANCE) =>
            ret' = ReturnedSite(shapeSegments[1])
     /\ \A m \in Destroyers, d \in Distances(MRNA_DESTROYER_CONNECT_DISTANCE) :
          (/\ call.name = "abortDestruction"
           /\ ConsiderProposalFromByMessengerRnaDestroyer(m, d)
           /\ seg[shapeSegments[1]].site = NoMolecule
           /\ d < MRNA_DESTROYER_CONNECT_DISTANCE) =>
            ret' = ReturnedSite(shapeSegments[1]) /\ messengerRnaDestroyer' = m]_vars

\* C6, its case: a destroyer that had been accepted has just aborted, on a
\* strand a ribosome is translating, and the leading site is free again.
C6_Witness ==
  /\ call.name = "abortDestruction"
  /\ messengerRnaDestroyer = NoMolecule
  /\ state = "unattachedAndAvailable"
  /\ \E r \in Ribosomes : ribosomeState[r] = "translating"
  /\ shapeSegments # <<>>
  /\ seg[shapeSegments[1]].site = NoMolecule

\* C7: advance( length ) on a segment of the list that has no input segment
\* returns, shrinks the segment by exactly min( length, contained length )
\* and leaves the total contained length of the list unchanged, also when
\* the segment is the only one of the list.
C7_AdvanceWithNoInput ==
  [][\A r \in Ribosomes, length \in 1..MaxStep :
       LET s == mapRibosomeToShapeSegment[r]
       IN  (/\ AdvanceTranslation(r, length)
            /\ IndexOf(shapeSegments, s) # 0
            /\ getNextShapeSegment(World, s) = NoSeg) =>
             /\ err' = "none"
             /\ seg'[s].len = seg[s].len - Min(length, seg[s].len)
             /\ ContainedLength(World)' = ContainedLength(World)]_vars

\* C8: advance( length ) on a segment of the list whose input segment holds
\* more than length returns; the input shrinks by exactly length; the
\* segment grows by min( length, remaining capacity ) and does not exceed
\* its capacity; when that leaves an excess and the segment has no output
\* segment, a new flat segment of capacity LEADER_LENGTH is put right before
\* it; and the total contained length of the list is unchanged.
C8_AdvanceFromLargerInput ==
  [][\A r \in Ribosomes, length \in 1..MaxStep :
       LET s == mapRibosomeToShapeSegment[r]
           inputSegment == getNextShapeSegment(World, s)
           room == seg[s].cap - seg[s].len
       IN  (/\ AdvanceTranslation(r, length)
            /\ IndexOf(shapeSegments, s) # 0
            /\ inputSegment # NoSeg
            /\ seg[inputSegment].len > length) =>
             /\ err' = "none"
             /\ seg'[inputSegment].len = seg[inputSegment].len - length
             /\ seg'[s].len = seg[s].len + Min(length, room)
             /\ seg'[s].len <= seg'[s].cap
             /\ (getPreviousShapeSegment(World, s) = NoSeg /\ room < length) =>
                  /\ IndexOf(shapeSegments', s) = 2
                  /\ seg[shapeSegments'[1]].kind = "free"
                  /\ seg'[shapeSegments'[1]].kind = "flat"
                  /\ seg'[shapeSegments'[1]].cap = LEADER_LENGTH
             /\ ContainedLength(World)' = ContainedLength(World)]_vars

\* C9: a call of advance( length ) that returns, on a segment of the list
\* whose input segment holds at most length, drops the input segment from
\* the list, shrinks the segment by exactly length less what the input
\* held, leaves the total contained length of the list unchanged and leaves
\* no segment with a negative contained length.
C9_ThreeWayRebalancing ==
  [][\A r \in Ribosomes, length \in 1..MaxStep :
       LET s == mapRibosomeToShapeSegment[r]
           inputSegment == getNextShapeSegment(World, s)
       IN  (/\ AdvanceTranslation(r, length)
            /\ IndexOf(shapeSegments, s) # 0
            /\ inputSegment # NoSeg
            /\ seg[inputSegment].len <= length
            /\ err' = "none") =>
             /\ IndexOf(shapeSegments', inputSegment) = 0
             /\ seg'[s].len = seg[s].len - (length - seg[inputSegment].len)
             /\ ContainedLength(World)' = ContainedLength(World)
             /\ \A u \in SegIds : seg'[u].len >= 0]_vars

\* C10: on a strand whose segments add up to the length of its chain,
\* advanceDestruction( length ) with 0 < length < strand length, the
\* destroyer's segment being in the list, takes exactly length off the total
\* contained length of the list, leaves the destroyer's segment alone when
\* the input segment holds more than length, and makes no segment longer.
C10_AdvanceAndRemove ==
  [][\A length \in 1..MaxStep :
       LET s == segmentWhereDestroyerConnects
       IN  (/\ AdvanceDestruction(length)
            /\ s # NoSeg
            /\ IndexOf(shapeSegments, s) # 0
            /\ ContainedLength(World) = getLength(points)
            /\ length < getLength(points)) =>
             /\ err' = "none"
             /\ ContainedLength(World)' = ContainedLength(World) - length
             /\ (getNextShapeSegment(World, s) # NoSeg
                 /\ seg[getNextShapeSegment(World, s)].len > length) =>
                  seg'[s].len = seg[s].len
             /\ \A u \in SegIds : seg'[u].len <= seg[u].len]_vars

\* C11: remove.  In every reachable state, remove( length ) on a flat
\* segment of the list takes exactly length off its contained length and
\* touches no other segment; the segment is deleted from the list if and
\* only if what it then holds is below the comparison factor, and otherwise
\* the list, and so the segment's index, is as before.
C11_Remove ==
  \A i \in 1..Len(shapeSegments), length \in 0..MaxStep :
    LET s == shapeSegments[i]
        w == FlatRemove(World, s, length)
    IN  (err = "none" /\ seg[s].kind = "flat") =>
          /\ w.seg[s].len = seg[s].len - length
          /\ \A u \in SegIds \ {s} : w.seg[u] = seg[u]
          /\ IF BelowCompFactor(seg[s].len - length)
               THEN w.list = RemoveAt(shapeSegments, i)
               ELSE w.list = shapeSegments /\ IndexOf(w.list, s) = i

\* C11, its case: an advanceTranslation call that returned has just taken
\* all that was left out of the ribosome's segment, which is no longer in
\* the list, while the segments after it are.
C11_Witness ==
  /\ call.name = "advanceTranslation"
  /\ err = "none"
  /\ ret = Returned("true")
  /\ seg[mapRibosomeToShapeSegment[call.who]].kind = "flat"
  /\ seg[mapRibosomeToShapeSegment[call.who]].len = 0
  /\ IndexOf(shapeSegments, mapRibosomeToShapeSegment[call.who]) = 0
  /\ Len(shapeSegments) >= 1

\* C12: translation terminates.  With one ribosome attached and calling
\* advanceTranslation with the same length at every step, no call fails and
\* a call returns true (the ribosome is done) after finitely many of them.
C12_TranslationTerminates ==
  /\ [][call'.name = "advanceTranslation" => err' = "none"]_vars
  /\ (ribosomeState[TheRibosome] = "translating") ~> (ribosomeState[TheRibosome] = "done")

\* C13: an advanceTranslation call that returns, returns true or false; it
\* returns true if and only if the ribosome's segment then holds nothing
\* and is not in the list, and false whenever the segment is still in the
\* list.
C13_AdvanceTranslationReturn ==
  [][\A r \in Ribosomes :
       (call'.name = "advanceTranslation" /\ call'.who = r /\ err' = "none") =>
         LET s == mapRibosomeToShapeSegment[r]
         IN  /\ ret' \in {Returned("true"), Returned("false")}
             /\ ret' = Returned("true") <=>
                  (seg'[s].len <= 0 /\ IndexOf(shapeSegments', s) = 0)
             /\ IndexOf(shapeSegments', s) # 0 => ret' = Returned("false")]_vars

\* C13, its case: a call has returned true to a ribosome whose segment is
\* empty and gone from a list that still holds the translated strand.
C13_Witness ==
  /\ call.name = "advanceTranslation"
  /\ ret = Returned("true")
  /\ ribosomeState[call.who] = "done"
  /\ seg[mapRibosomeToShapeSegment[call.who]].len <= 0
  /\ IndexOf(shapeSegments, mapRibosomeToShapeSegment[call.who]) = 0
  /\ ContainedLength(World) = getLength(points)
  /\ getLength(points) > 0

\* C14: with a destroyer's segment connected, advanceDestruction( length )
\* returns, and returns true if and only if the chain is then a single
\* point; that is so exactly when length is at least the strand's length
\* before the call, and then the segment list is empty and the chain is its
\* first point alone; otherwise the strand's length (along the chain) goes
\* down by exactly length and the call returns false.
C14_AdvanceDestructionReturn ==
  [][\A length \in 1..MaxStep :
       (AdvanceDestruction(length) /\ segmentWhereDestroyerConnects # NoSeg) =>
         /\ err' = "none"
         /\ ret' = Returned("true") <=> Len(points') = 1
         /\ Len(points') = 1 <=> length >= getLength(points)
         /\ IF length >= getLength(points)
              THEN /\ shapeSegments' = <<>>
                   /\ points' = <<points[1]>>
                   /\ ret' = Returned("true")
              ELSE /\ getLength(points') = getLength(points) - length
                   /\ ret' = Returned("false")]_vars

\* C14, its case: a call with exactly the length the strand had left has
\* returned true, the list is empty and the chain is a single point.
C14_Witness ==
  /\ call.name = "advanceDestruction"
  /\ segmentWhereDestroyerConnects # NoSeg
  /\ ret = Returned("true")
  /\ err = "none"
  /\ shapeSegments = <<>>
  /\ Len(points) = 1

\* C15: advanceDestruction called while no destroyer's segment is connected
\* returns true, raises nothing and leaves the segments, the list, the
\* chain, the ribosome map, the destroyer and the state machine as they
\* were.
C15_AdvanceDestructionUnconnected ==
  [][(call'.name = "advanceDestruction" /\ segmentWhereDestroyerConnects = NoSeg) =>
       /\ ret' = Returned("true")
       /\ err' = "none"
       /\ UNCHANGED <<seg, shapeSegments, points, mapRibosomeToShapeSegment,
                      messengerRnaDestroyer, segmentWhereDestroyerConnects, state>>]_vars

\* C15, its case: a destroyer has been accepted but has not arrived, a
\* ribosome is translating, and advanceDestruction has returned true on a
\* strand that has all its length.
C15_Witness ==
  /\ call.name = "advanceDestruction"
  /\ segmentWhereDestroyerConnects = NoSeg
  /\ messengerRnaDestroyer # NoMolecule
  /\ ret = Returned("true")
  /\ \E r \in Ribosomes : ribosomeState[r] = "translating"
  /\ shapeSegments # <<>>
  /\ getLength(points) > 0

\* C16: the attachment-location queries answer the vector (0, 0) for a
\* molecule that is not attached: getRibosomeAttachmentLocation for a ribosome
\* that is not in the map, getDestroyerAttachmentLocation while no
\* destroyer's segment is connected.
C16_UnattachedLocationIsZero ==
  /\ \A ribosome \in Ribosomes :
       mapRibosomeToShapeSegment[ribosome] = NoSeg =>
         getRibosomeAttachmentLocation(ribosome) = ZeroVector
  /\ segmentWhereDestroyerConnects = NoSeg =>
       getDestroyerAttachmentLocation = ZeroVector

\* C17: releaseFromRibosome(ribosome) takes that ribosome's entry, and no
\* other, out of the map; the state machine is told allRibosomesDetached
\* when the map is empty afterwards, and is left in its state when another
\* ribosome is still in the map.
C17_ReleaseFromRibosome ==
  [][call'.name = "releaseFromRibosome" =>
       /\ mapRibosomeToShapeSegment[call'.who] # NoSeg
       /\ mapRibosomeToShapeSegment' =
            [mapRibosomeToShapeSegment EXCEPT ![call'.who] = NoSeg]
       /\ IF \A r \in Ribosomes : mapRibosomeToShapeSegment'[r] = NoSeg
            THEN state' = allRibosomesDetached(state)
            ELSE state' = state]_vars

\* C17, its case: of two attached ribosomes one has just been released; the
\* other is still in the map and the strand is still being translated.
C17_Witness ==
  /\ call.name = "releaseFromRibosome"
  /\ mapRibosomeToShapeSegment[call.who] = NoSeg
  /\ \E r \in Ribosomes \ {call.who} : mapRibosomeToShapeSegment[r] # NoSeg
  /\ state = "beingTranslated"

\* C18: initiateTranslation(ribosome) sets the capacity of the first segment
\* of the list, which is the ribosome's segment in the map, to the
\* translation channel's length plus LEADER_LENGTH; initiateDestruction makes
\* the first segment segmentWhereDestroyerConnects and sets its capacity to
\* the destruction channel's length plus LEADER_LENGTH; neither raises, and
\* neither changes a contained length or the order of the list.
C18_InitiateSetsCapacity ==
  [][/\ call'.name = "initiateTranslation" =>
          /\ err' = "none"
          /\ shapeSegments # <<>>
          /\ shapeSegments[1] = mapRibosomeToShapeSegment[call'.who]
          /\ seg'[shapeSegments[1]].cap = TranslationChannelLength + LEADER_LENGTH
          /\ \A s \in SegIds : seg'[s].len = seg[s].len
          /\ shapeSegments' = shapeSegments
     /\ call'.name = "initiateDestruction" =>
          /\ err' = "none"
          /\ shapeSegments # <<>>
          /\ segmentWhereDestroyerConnects' = shapeSegments[1]
          /\ seg'[shapeSegments[1]].cap = DestructionChannelLength + LEADER_LENGTH
          /\ \A s \in SegIds : seg'[s].len = seg[s].len
          /\ shapeSegments' = shapeSegments]_vars

\* C19: for an attached ribosome on a strand that has length,
\* getProportionOfRnaTranslated is at most 1: the translated length is at
\* most the length of the chain, for some position at least of the
\* attachment site on the ribosome's segment. (It is never below 0: the
\* method ends with Math.max.)
C19_ProportionAtMostOne ==
  \A ribosome \in Ribosomes :
    (Alive /\ mapRibosomeToShapeSegment[ribosome] # NoSeg /\ getLength(points) > 0) =>
      \E siteOffset \in SiteOffsets(mapRibosomeToShapeSegment[ribosome]) :
        /\ getProportionOfRnaTranslated(ribosome, siteOffset).translated >= 0
        /\ getProportionOfRnaTranslated(ribosome, siteOffset).translated
             <= getProportionOfRnaTranslated(ribosome, siteOffset).of

\* C20: while the chain has more than one point the segment list is not
\* empty, in every state a call has returned to.
C20_ListNotEmptyWhileChainHasLength ==
  err = "none" => (Len(points) > 1 => shapeSegments # <<>>)

\* C21: reduceLength leaves the chain of points well formed, for every
\* reduction of the chain of every reachable state and for every further
\* reduction of the result: the last point is not null, the first point has
\* no previous point, the last has no next point, the next references lead
\* from the first point to the last without meeting a point twice, each
\* point's previous reference is the point before it, and the distances
\* along the chain are the ones the strand's state keeps.
C21_ChainWellFormed ==
  LET WellFormed(c) ==
        LET path == PointsFrom(c, c.firstShapeDefiningPoint, MaxLen + 2)
        IN  /\ c.err = "none"
            /\ c.lastShapeDefiningPoint # NoPoint
            /\ c.mass[c.firstShapeDefiningPoint].previousPointMass = NoPoint
            /\ c.mass[c.lastShapeDefiningPoint].nextPointMass = NoPoint
            /\ path # <<>>
            /\ Len(path) <= MaxLen + 1
            /\ path[Len(path)] = c.lastShapeDefiningPoint
            /\ \A i, j \in 1..Len(path) : path[i] = path[j] => i = j
            /\ \A i \in 2..Len(path) : c.mass[path[i]].previousPointMass = path[i - 1]
      Reduced(p, length) ==
        IF length >= getLength(p) THEN <<p[1]>> ELSE RemoveFromPoints(p, length).points
  IN  \A first \in 1..MaxStep :
        LET once == reduceLengthOfChain(Chain(points), first)
        IN  /\ WellFormed(once)
            /\ ChainDistances(once) = Reduced(points, first)
            /\ \A second \in 1..MaxStep :
                 LET twice == reduceLengthOfChain(once, second)
                 IN  /\ WellFormed(twice)
                     /\ ChainDistances(twice) = Reduced(Reduced(points, first), second)

\* C21, its case: destruction is under way on a chain of four points or
\* more, and a further reduction takes a point off the chain's end and
\* shortens the distance of the point before it.
C21_Witness ==
  /\ call.name = "advanceDestruction"
  /\ ret = Returned("false")
  /\ err = "none"
  /\ Len(points) >= 4
  /\ \E length \in 1..MaxStep :
       /\ reduceLengthOfChain(Chain(points), length).lastShapeDefiningPoint = Len(points) - 1
       /\ reduceLengthOfChain(Chain(points), length).mass[Len(points) - 1]
            .targetDistanceToPreviousPoint < points[Len(points) - 1]
       /\ reduceLengthOfChain(Chain(points), length).mass[Len(points) - 1]
            .targetDistanceToPreviousPoint > 0

\* C22: every flat segment holds at least 0 and at most its capacity, in
\* every state a call has returned to.
C22_FlatSegmentWithinCapacity ==
  err = "none" =>
    \A s \in SegIds :
      seg[s].kind = "flat" => (0 <= seg[s].len /\ seg[s].len <= seg[s].cap)

\* C23: whenever initiateTranslation or initiateDestruction is called the
\* list has a first segment and it is flat, and in every state the segment
\* of every attached ribosome (the one getProportionOfRnaTranslated reads)
\* and the destroyer's segment are flat.
C23_LeadingSegmentIsFlat ==
  /\ [][call'.name \in {"initiateTranslation", "initiateDestruction"} =>
          /\ shapeSegments # <<>>
          /\ seg[shapeSegments[1]].kind = "flat"]_vars
  /\ [](/\ \A ribosome \in Ribosomes :
             mapRibosomeToShapeSegment[ribosome] # NoSeg =>
               seg[mapRibosomeToShapeSegment[ribosome]].kind = "flat"
        /\ segmentWhereDestroyerConnects # NoSeg =>
             seg[segmentWhereDestroyerConnects].kind = "flat")

\* C23, its case: a second ribosome's initiateTranslation has just been
\* called on a list whose first segment is the leader that an advance of the
\* first ribosome put there, with a square segment further on.
C23_Witness ==
  /\ call.name = "initiateTranslation"
  /\ err = "none"
  /\ Len(shapeSegments) >= 3
  /\ mapRibosomeToShapeSegment[call.who] = shapeSegments[1]
  /\ shapeSegments[1] # 1
  /\ seg[shapeSegments[1]].kind = "flat"
  /\ \E other \in Ribosomes \ {call.who} :
       /\ ribosomeState[other] = "translating"
       /\ mapRibosomeToShapeSegment[other] = shapeSegments[2]
  /\ seg[shapeSegments[Len(shapeSegments)]].kind = "square"

\* C24: FlatSegment.remove, called on any flat segment the strand refers to
\* (in the list or no longer in it) with any length, leaves every other
\* segment of the list in the list, in the same order.
C24_RemoveDeletesOnlyItself ==
  \A s \in SegIds :
    seg[s].kind = "flat" =>
      \A length \in 0..MaxStep :
        LET Other(x) == x # s
        IN  SelectSeq(FlatRemove(World, s, length).list, Other)
              = SelectSeq(shapeSegments, Other)

\* C25: on a live strand the segment that the map records for a ribosome is
\* a member of the segment list.
C25_NoDanglingRibosomeSegment ==
  Alive =>
    \A ribosome \in Ribosomes :
      mapRibosomeToShapeSegment[ribosome] # NoSeg =>
        IndexOf(shapeSegments, mapRibosomeToShapeSegment[ribosome]) # 0

\* C26: while a destroyer's segment is connected and the chain has length,
\* that segment is the first segment of the list.
C26_DestroyerSegmentLeads ==
  (Alive /\ segmentWhereDestroyerConnects # NoSeg /\ getLength(points) > 0) =>
    (shapeSegments # <<>> /\ shapeSegments[1] = segmentWhereDestroyerConnects)

\* C27: while a ribosome is in the map of a live strand, the strand's
\* attachment state is not unattached-and-available.
C27_AttachedStrandIsNotFree ==
  (Alive /\ \E ribosome \in Ribosomes : mapRibosomeToShapeSegment[ribosome] # NoSeg) =>
    state # "unattachedAndAvailable"

\* C28: the point getRibosomeAttachmentLocation computes for a ribosome
\* whose segment has the capacity of channel plus leader is the same before
\* and after every advanceTranslation call of that ribosome that returns.
C28_AttachmentLocationDoesNotJump ==
  [][\A ribosome \in Ribosomes :
       (/\ call'.name = "advanceTranslation"
        /\ call'.who = ribosome
        /\ err' = "none"
        /\ seg[mapRibosomeToShapeSegment[ribosome]].cap
             = TranslationChannelLength + LEADER_LENGTH) =>
         VectorX(getRibosomeAttachmentLocation(ribosome),
                 BoundsOf(World, mapRibosomeToShapeSegment[ribosome]))
           = VectorX(getRibosomeAttachmentLocation(ribosome)',
                     AdvanceBounds(World, mapRibosomeToShapeSegment[ribosome],
                                   call'.length,
                                   BoundsOf(World, mapRibosomeToShapeSegment[ribosome])))]_vars


\* C29: a MotionBounds made without bounds has inBounds true of every shape,
\* and a set called on one instance leaves the answers of inBounds on every
\* other instance made without bounds as they were.
C29_MotionBoundsAreIndependent ==
  /\ [][\A m \in MotionBoundsInstances :
          (/\ motionBounds[m] = "Bounds2.EVERYTHING"
           /\ motionCall'.name = "set"
           /\ motionCall'.who # m) =>
            \A bounds \in FiniteBounds : inBounds(m, bounds)' = inBounds(m, bounds)]_allVars
  /\ [](\A m \in MotionBoundsInstances :
          (motionCall.name = "new" /\ motionCall.who = m
             /\ motionBounds[m] = "Bounds2.EVERYTHING") =>
            \A bounds \in FiniteBounds : inBounds(m, bounds))


\* C30: once the screen view is made, the layer has exactly one node for each
\* biomolecule in the list and none for any other, and as many item-removed
\* listeners are registered as there are biomolecules added since and still
\* in the list.
C30_NodesMatchTheList ==
  screenView = "constructed" =>
    /\ \A b \in Biomolecules :
         topBiomoleculeLayer[b] = (IF b \in mobileBiomoleculeList THEN 1 ELSE 0)
    /\ SumOver(itemRemovedListeners, Biomolecules) = Cardinality(addedBiomolecules)

=============================================================================
